---- MODULE Spec2Model ----
\* A model of PKIsensee::FileSpec (FileSpec.h / FileSpec.cpp): one FileSpec
\* object, its constructors, Assign, the ParseSpec decomposition and the
\* queries built on it; of PKIsensee::FileItr (FileItr.h / FileItr.cpp): one
\* directory enumerator over a Win32 search handle; of DirTree::ForEach
\* (DirTree.h): the walk over a directory tree, as a stack of activations;
\* and of PKIsensee::File (File.h / File.cpp): one File object over a Win32
\* file handle, and File::ReadEntireFile.
\* A path string is a sequence of one-character strings; positions are the
\* 0-based offsets the code uses (size_type / iterator distance from
\* mFileSpec.begin()). Spec, SpecItr, SpecWalk and SpecFile are the four
\* state machines; each leaves the variables of the others alone.
\* SpecItrWalk is the union of SpecItr and SpecWalk, and FairSpecWalk is
\* SpecWalk in which a ForEach run that can take a step takes one.
EXTENDS Integers, Sequences, FiniteSets, TLC

VARIABLES mFileSpec, status, call, itr, tree, stack, visited, opened,
          handles, fileObj, rd

vars == <<mFileSpec, status, call, itr, tree, stack, visited, opened,
          handles, fileObj, rd>>

\* the variables of the FileSpec object, of the FileItr object, of the
\* directory walk, and of the File object and ReadEntireFile
fileSpecVars == <<mFileSpec, status>>

itrVars == <<itr>>

walkVars == <<tree, stack, visited, opened, handles>>

fileVars == <<fileObj, rd>>

-----------------------------------------------------------------------------
\* Bounds of the model and the input alphabets

MaxPathLen == 5
MaxPartLen == 2
MaxExtLen == 2

\* std::string::npos, as the "not found" result of rfind
npos == -1

\* Characters the full-path inputs are drawn from: a letter, the volume,
\* directory and extension separators, and one character IsGoodFileName rejects
PathChars == {"a", ":", "\\", ".", "|"}

\* Characters the dir and file parts handed to the part constructors are
\* drawn from
DirChars == {"a", ":", "\\", "/"}

FileChars == {"a", ":", "\\", "."}

ExtChars == {"a", "."}

Letters ==
    {"a", "b", "c", "d", "e", "f", "g", "h", "i", "j", "k", "l", "m",
     "n", "o", "p", "q", "r", "s", "t", "u", "v", "w", "x", "y", "z"}

IllegalChars == {"|"}

\* All strings over chars of length at most n
Strs(chars, n) == UNION {[1..k -> chars] : k \in 0..n}

\* The examples table in the comment above ParseSpec
Examples ==
  { <<"a", ":">>,
    <<"a", ":", "f", "i", "l", "e">>,
    <<"a", ":", "\\", "f", "i", "l", "e">>,
    <<"\\", "d", "i", "r", "\\">>,
    <<"\\", "f", "i", "l", "e">>,
    <<".", ".", "\\", ".", ".", "\\", "d", "i", "r", "\\">>,
    <<".", ".", "\\", ".", ".", "\\", "f", "i", "l", "e">>,
    <<"a", ":", "\\", "d", "i", "r", "\\", "f", "i", "l", "e", ".", "e", "x", "t">>,
    <<"\\", "d", "i", "r", "\\", "f", "i", "l", "e", ".", "e", "x", "t">>,
    <<"d", "i", "r", "\\", "f", "i", "l", "e", ".", "e", "x", "t">>,
    <<"d", "i", "r", ".", "e", "x", "t", "\\", "f", "i", "l", "e", ".", "e", "x", "t">>,
    <<"d", "i", "r", ".", "e", "x", "t", "\\", "f", "i", "l", "e">>,
    <<"f", "i", "l", "e", ".", "e", "x">>,
    <<"f", "i", "l", "e", ".", "e", "x", ".", "l", "o", "n", "g", "e", "x", "t">>,
    <<".", ".", "\\">>,
    <<>> }

PathInputs == Strs(PathChars, MaxPathLen) \cup Examples

VolInputs == { <<>>, <<"a", ":">>, <<"a">>, <<"\\", ":">> }

DirInputs == Strs(DirChars, MaxPartLen)

FileInputs == Strs(FileChars, MaxPartLen)

\* dir arguments of the four-part constructor: empty, without and with either
\* trailing separator
DirInputs4 == { <<>>, <<"a">>, <<"a", "\\">>, <<"a", "/">> }

ExtInputs == Strs(ExtChars, MaxExtLen)

\* Strings handed to Assign: the examples and a few malformed or edge paths
AssignInputs ==
    Examples \cup { <<"|">>, <<".", ":">>, <<"\\", ":">>, <<"a", ".">>,
                    <<".", "a">>, <<"a", "\\", ".">> }

-----------------------------------------------------------------------------
\* std::string helpers

\* s.rfind( c ): 0-based offset of the last c, npos when there is none
rfind(s, c) ==
    IF \E i \in 1..Len(s) : s[i] = c
    THEN (CHOOSE i \in 1..Len(s) :
             /\ s[i] = c
             /\ \A j \in (i+1)..Len(s) : s[j] # c) - 1
    ELSE npos

\* std::string( first, last ) for offsets first <= last into s
Range(s, first, last) == SubSeq(s, first + 1, last)

-----------------------------------------------------------------------------
\* FileSpec::ParseSpec, one definition per local of the function

firstVolSep(s) == IF Len(s) > 1 /\ s[2] = ":" THEN 1 ELSE npos

lastDirSep(s) == rfind(s, "\\")

\* mutant of lastFileSep: find() in place of rfind(), the first '.' is taken
lastFileSep_First(s) ==
    IF \E i \in 1..Len(s) : s[i] = "."
    THEN (CHOOSE i \in 1..Len(s) :
             /\ s[i] = "."
             /\ \A j \in 1..(i-1) : s[j] # ".") - 1
    ELSE npos

lastFileSep(s) == rfind(s, ".")

bHaveVolSep(s) == firstVolSep(s) # npos

bHaveDirSep(s) == lastDirSep(s) # npos

\* mutant of bHaveFileSep: the comparison with lastDirSep is left out
bHaveFileSep_NoDirCheck(s) == lastFileSep(s) # npos

bHaveFileSep(s) ==
    /\ lastFileSep(s) # npos
    /\ (IF bHaveDirSep(s) THEN lastFileSep(s) > lastDirSep(s) ELSE TRUE)

volBegin(s) == 0

volEnd(s) == IF bHaveVolSep(s) THEN firstVolSep(s) + 1 ELSE 0

dirBegin(s) == volEnd(s)

\* mutant of dirEnd: the last '\' itself is left out of the directory
dirEnd_NoInc(s) == IF bHaveDirSep(s) THEN lastDirSep(s) ELSE volEnd(s)

dirEnd(s) == IF bHaveDirSep(s) THEN lastDirSep(s) + 1 ELSE volEnd(s)

fileBegin(s) == dirEnd(s)

fileEnd(s) == IF bHaveFileSep(s) THEN lastFileSep(s) ELSE Len(s)

\* mutant of extBegin: the extension starts at the '.' instead of after it
extBegin_InclSep(s) == IF bHaveFileSep(s) THEN lastFileSep(s) ELSE Len(s)

extBegin(s) == IF bHaveFileSep(s) THEN lastFileSep(s) + 1 ELSE Len(s)

extEnd(s) == Len(s)

ParseSpec(s) ==
    [ volBegin |-> volBegin(s),   volEnd |-> volEnd(s),
      dirBegin |-> dirBegin(s),   dirEnd |-> dirEnd(s),
      fileBegin |-> fileBegin(s), fileEnd |-> fileEnd(s),
      extBegin |-> extBegin(s),   extEnd |-> extEnd(s) ]

-----------------------------------------------------------------------------
\* Queries, as functions of the object's mFileSpec

GetVol(s) == LET p == ParseSpec(s) IN Range(s, p.volBegin, p.volEnd)

GetDir(s) == LET p == ParseSpec(s) IN Range(s, p.dirBegin, p.dirEnd)

GetFile(s) == LET p == ParseSpec(s) IN Range(s, p.fileBegin, p.extEnd)

GetFileNoExtension(s) == LET p == ParseSpec(s) IN Range(s, p.fileBegin, p.fileEnd)

GetExtension(s) == LET p == ParseSpec(s) IN Range(s, p.extBegin, p.extEnd)

GetFullPath(s) == s

\* mutant of Split3: file ends where the stem ends
Split3_StemOnly(s) ==
    LET p == ParseSpec(s) IN
    [ vol  |-> Range(s, p.volBegin, p.volEnd),
      dir  |-> Range(s, p.dirBegin, p.dirEnd),
      file |-> Range(s, p.fileBegin, p.fileEnd) ]

\* Split( vol, dir, file ): file includes the extension
Split3(s) ==
    CHOOSE sp \in { [ vol  |-> Range(x, p.volBegin, p.volEnd),
                      dir  |-> Range(x, p.dirBegin, p.dirEnd),
                      file |-> Range(x, p.fileBegin, p.extEnd) ] :
                       <<x, p>> \in { <<y, ParseSpec(y)>> : y \in {s} } } :
        TRUE

\* Split( vol, dir, file, ext )
Split4(s) ==
    LET p == ParseSpec(s) IN
    [ vol  |-> Range(s, p.volBegin, p.volEnd),
      dir  |-> Range(s, p.dirBegin, p.dirEnd),
      file |-> Range(s, p.fileBegin, p.fileEnd),
      ext  |-> Range(s, p.extBegin, p.extEnd) ]

\* mutant of IsFolder: the test of dir is left out
IsFolder_VolOnly(s) == Split3(s).file = <<>> /\ Split3(s).vol # <<>>

\* mutant of IsFolder: the test of vol and dir is left out
IsFolder_NoVolDir(s) == Split3(s).file = <<>>

IsFolder(s) ==
    LET sp == Split3(s) IN
    IF sp.file # <<>>
    THEN FALSE
    ELSE sp.vol # <<>> \/ sp.dir # <<>>

\* mutant of IsFile: the stem of the four-way Split is tested
IsFile_StemOnly(s) == Split4(s).file # <<>>

IsFile(s) == Split3(s).file # <<>>

-----------------------------------------------------------------------------
\* Validation

\* CharUtilT< char >::IsAlpha
IsAlpha(c) == c \in Letters

\* StrUtilT< char >::IsGoodFileName( str, AllowWildcards::Yes )
IsGoodFileName(str) == \A i \in 1..Len(str) : str[i] \notin IllegalChars

\* The three-way Split builds a string from an iterator pair whose end lies
\* before its begin: undefined behaviour of std::string::assign
SplitRangeReversed(s) ==
    LET p == ParseSpec(s) IN
    \/ p.volEnd < p.volBegin
    \/ p.dirEnd < p.dirBegin
    \/ p.extEnd < p.fileBegin

\* mutant of ValidateAsserts: the IsAlpha assertion on vol[0] is left out
ValidateAsserts_NoAlpha(s) ==
    LET sp == Split3(s) IN
    /\ (sp.vol # <<>> =>
          /\ Len(sp.vol) = 2
          /\ sp.vol[2] = ":")
    /\ IsGoodFileName(sp.dir)
    /\ IsGoodFileName(sp.file)
    /\ sp.vol \o sp.dir \o sp.file = s

\* The assertions of Validate, in order
ValidateAsserts(s) ==
    \E <<x, sp>> \in { <<y, Split3(y)>> : y \in {s} } :
       /\ (sp.vol # <<>> =>
             /\ Len(sp.vol) = 2
             /\ IsAlpha(sp.vol[1])
             /\ sp.vol[2] = ":")
       /\ IsGoodFileName(sp.dir)
       /\ IsGoodFileName(sp.file)
       /\ sp.vol \o sp.dir \o sp.file = x

\* The ways Validate can end on mFileSpec = s: "ok" when every assertion
\* passes, "MalformedPath" when one fails; a reversed range either throws out
\* of std::string (RangeError) or yields a value the volume assertion rejects
Validate(s) ==
    IF SplitRangeReversed(s) THEN {"MalformedPath", "RangeError"}
    ELSE IF ValidateAsserts(s) THEN {"ok"}
    ELSE {"MalformedPath"}

-----------------------------------------------------------------------------
\* Construction from parts

\* mutant of Assemble3: the separator is appended without looking at dir
Assemble3_AlwaysSep(vol, dir, file) == vol \o dir \o <<"\\">> \o file

\* the string the three-part constructor assembles
Assemble3(vol, dir, file) ==
    vol \o dir
        \o (IF dir # <<>> /\ dir[Len(dir)] # "\\" /\ dir[Len(dir)] # "/"
            THEN <<"\\">> ELSE <<>>)
        \o file

\* the string the four-part constructor assembles
Assemble4(vol, dir, file, ext) ==
    vol \o dir
        \o (IF dir # <<>> /\ dir[Len(dir)] # "\\" /\ dir[Len(dir)] # "/"
            THEN <<"\\">> ELSE <<>>)
        \o file
        \o (IF ext # <<>> /\ ext[Len(ext)] # "." THEN <<".">> ELSE <<>>)
        \o ext

-----------------------------------------------------------------------------
\* FileItr (FileItr.h / FileItr.cpp) and the Win32 search it wraps

\* Longest directory listing a single FileItr is taken through
MaxListing == 4

INVALID_HANDLE_VALUE == -1

FILE_ATTRIBUTE_DIRECTORY == "FILE_ATTRIBUTE_DIRECTORY"

\* the terminator of the C string cFileName
NUL == "NUL"

\* WIN32_FIND_DATAA after ZeroMemory
ZeroFindData == [ cFileName |-> <<>>, dwFileAttributes |-> {} ]

\* the two entries every directory holds for itself and its parent
DotEntry == [ cFileName |-> <<".">>,
              dwFileAttributes |-> {FILE_ATTRIBUTE_DIRECTORY} ]

DotDotEntry == [ cFileName |-> <<".", ".">>,
                 dwFileAttributes |-> {FILE_ATTRIBUTE_DIRECTORY} ]

\* Entries a listing is made of: the two special folders, a file, a folder,
\* and two folders whose names only begin like the special ones
ItrEntries ==
    { DotEntry, DotDotEntry,
      [ cFileName |-> <<"a">>, dwFileAttributes |-> {} ],
      [ cFileName |-> <<"b">>,
        dwFileAttributes |-> {FILE_ATTRIBUTE_DIRECTORY} ],
      [ cFileName |-> <<".", "a">>,
        dwFileAttributes |-> {FILE_ATTRIBUTE_DIRECTORY} ],
      [ cFileName |-> <<".", ".", "a">>,
        dwFileAttributes |-> {FILE_ATTRIBUTE_DIRECTORY} ] }

\* A listing names each entry once and is never empty: FindFirstFileExA
\* fails when nothing matches
Listings ==
    { l \in UNION {[1..k -> ItrEntries] : k \in 1..MaxListing} :
         \A i, j \in 1..Len(l) : i # j => l[i] # l[j] }

\* What FindFirstFileExA can answer: a failure with its GetLastError code, or
\* a search handle on a listing
FindResults ==
    { [ err |-> e, listing |-> <<>> ] :
         e \in {"ERROR_FILE_NOT_FOUND", "ERROR_BAD_NETPATH"} }
    \cup { [ err |-> "ERROR_SUCCESS", listing |-> l ] : l \in Listings }

\* The FileSpecs a FileItr is constructed on
ItrPatterns ==
    { <<>>,
      <<"*">>,
      <<"d", "\\", "*">>,
      <<"d", "\\">>,
      <<"d", "\\", "\\">>,
      <<"a", ":", "\\", "d", "\\", "*", ".", "a">> }

\* A FileItr after its member initialisers, together with the OS side of its
\* search: the path FindFirstFileExA was called on, the listing behind the
\* handle, the OS cursor into it, whether the handle is open, the error code
\* FindFirstFileExA left, how often FindClose was called and whether it was
\* called on a handle that is not open; indeterminate says that a failed
\* FindNextFileA has left the contents of the find data indeterminate, and
\* readIndeterminate that they were read since; asserted records a failed
\* assert
NewItr ==
    [ mpFindData    |-> ZeroFindData,
      mFindHandle   |-> INVALID_HANDLE_VALUE,
      mVol          |-> <<>>,
      mDir          |-> <<>>,
      mSpec         |-> <<>>,
      mNetworkAvail |-> TRUE,
      lpFileName    |-> <<>>,
      listing       |-> <<>>,
      pos           |-> 0,
      lastError     |-> "ERROR_SUCCESS",
      openErr       |-> "ERROR_SUCCESS",
      handleOpen    |-> FALSE,
      nFindFirst    |-> 0,
      nFindClose    |-> 0,
      badClose      |-> FALSE,
      indeterminate |-> FALSE,
      readIndeterminate |-> FALSE,
      asserted      |-> FALSE ]

\* cFileName[ k ]
CharAt(name, k) == IF k < Len(name) THEN name[k + 1] ELSE NUL

\* FileAttrib::IsFolder on the attributes of a WIN32_FIND_DATAA
FileAttrib_IsFolder(findData) ==
    FILE_ATTRIBUTE_DIRECTORY \in findData.dwFileAttributes

FileItr_Exists(it) == it.mFindHandle # INVALID_HANDLE_VALUE

FileItr_IsNetworkAvailable(it) == it.mNetworkAvail

\* the value of operator *, and of operator -> as a pointer to it
FileItr_Deref(it) == it.mSpec

\* The element of a set of one element. The operators below bind a FileItr
\* through such a set, so that it is a value wherever it is used
TheOne(S) == CHOOSE r \in S : TRUE

\* mSpec.Assign( FileSpec( mVol, mDir, std::string( mpFindData->cFileName ) ) )
AssignCurrent(it) ==
    TheOne({ [ x EXCEPT !.mSpec = s,
                        !.readIndeterminate = @ \/ x.indeterminate,
                        !.asserted = @ \/ (/\ ~x.indeterminate
                                           /\ ~ValidateAsserts(s)) ] :
                <<x, s>> \in { <<y, Assemble3(y.mVol, y.mDir,
                                              y.mpFindData.cFileName)>> :
                                  y \in {it} } })

\* mutant of FileItr_Close: the handle is closed again though it is invalid
FileItr_Close_Unguarded(it) ==
    TheOne({ [ x EXCEPT !.nFindClose = @ + 1,
                        !.badClose = @ \/ ~x.handleOpen,
                        !.handleOpen = FALSE,
                        !.mFindHandle = INVALID_HANDLE_VALUE,
                        !.mNetworkAvail = TRUE ] : x \in {it} })

\* mutant of FileItr_Close: the handle is forgotten and FindClose not called
FileItr_Close_NoFindClose(it) ==
    TheOne({ [ x EXCEPT !.mFindHandle = INVALID_HANDLE_VALUE,
                        !.mNetworkAvail = TRUE ] : x \in {it} })

FileItr_Close(it) ==
    TheOne({ IF x.mFindHandle # INVALID_HANDLE_VALUE
             THEN [ x EXCEPT !.nFindClose = @ + 1,
                             !.badClose = @ \/ ~x.handleOpen,
                             !.handleOpen = FALSE,
                             !.mFindHandle = INVALID_HANDLE_VALUE,
                             !.mNetworkAvail = TRUE ]
             ELSE x : x \in {it} })

\* FindNextFileA: the next entry of the listing is copied to the find data, or
\* the call fails, at the end of the listing or on a handle that is not
\* open; the contents of the find data are indeterminate after a failure
\* (the record keeps the entry it held and is marked)
FindNextFileA(it) ==
    TheOne({ IF x.handleOpen /\ x.pos < Len(x.listing)
             THEN [ x EXCEPT !.pos = @ + 1,
                             !.mpFindData = x.listing[x.pos + 1] ]
             ELSE [ x EXCEPT !.lastError =
                                 IF x.handleOpen THEN "ERROR_NO_MORE_FILES"
                                 ELSE "ERROR_INVALID_HANDLE",
                             !.indeterminate = TRUE ] :
                x \in {it} })

FindNextFileA_Ok(it) ==
    \E x \in {it} : x.handleOpen /\ x.pos < Len(x.listing)

\* assert( Exists() ) at the head of operator ++ and SkipSpecialFolders
AssertExists(it) ==
    TheOne({ [ x EXCEPT !.asserted = @ \/ ~FileItr_Exists(x) ] : x \in {it} })

\* mutant of FileItr_Star: the assertion is left out
FileItr_Star_NoAssert(it) == it

\* operator * and operator -> as calls: assert( Exists() ), the object is
\* left as it is
FileItr_Star(it) == AssertExists(it)

\* GetAttrib as a call: assert( Exists() ), the object is left as it is
FileItr_GetAttrib(it) == AssertExists(it)

RECURSIVE FileItr_Inc(_), SkipSpecialFolders(_)

\* mutant of FileItr_Inc: mSpec is not assigned again after the step
FileItr_Inc_NoAssign(it) ==
    TheOne({ IF ~FindNextFileA_Ok(a)
             THEN FileItr_Close(FindNextFileA(a))
             ELSE SkipSpecialFolders(FindNextFileA(a)) :
                a \in {AssertExists(it)} })

\* operator ++
FileItr_Inc(it) ==
    TheOne({ IF ~FindNextFileA_Ok(a)
             THEN FileItr_Close(FindNextFileA(a))
             ELSE AssignCurrent(SkipSpecialFolders(FindNextFileA(a))) :
                a \in {AssertExists(it)} })

\* mutant of SkipSpecialFolders: only "." is stepped over
SkipSpecialFolders_DotOnly(it) ==
    TheOne({ IF ~FileAttrib_IsFolder(a.mpFindData) THEN a
             ELSE IF /\ CharAt(a.mpFindData.cFileName, 0) = "."
                     /\ CharAt(a.mpFindData.cFileName, 1) = NUL
             THEN FileItr_Inc(a)
             ELSE a : a \in {AssertExists(it)} })

SkipSpecialFolders(it) ==
    TheOne({ IF ~FileAttrib_IsFolder(a.mpFindData) THEN a
             ELSE IF CharAt(a.mpFindData.cFileName, 0) = "."
             THEN IF CharAt(a.mpFindData.cFileName, 1) = NUL
                  THEN FileItr_Inc(a)
                  ELSE IF /\ CharAt(a.mpFindData.cFileName, 1) = "."
                          /\ CharAt(a.mpFindData.cFileName, 2) = NUL
                  THEN FileItr_Inc(a)
                  ELSE a
             ELSE a : a \in {AssertExists(it)} })

\* mutant of FindPath: every trailing directory separator is removed
FindPath_StripAll(spec) ==
    LET path == GetFullPath(spec)
        keep == { k \in 1..Len(path) : path[k] # "\\" }
    IN IF keep = {} THEN <<>>
       ELSE SubSeq(path, 1, CHOOSE k \in keep : \A j \in keep : j <= k)

\* The path Init hands to FindFirstFileExA: the full path of spec without its
\* last character when that is a directory separator
FindPath(spec) ==
    LET path == GetFullPath(spec) IN
    IF path # <<>> /\ rfind(path, "\\") = Len(path) - 1
    THEN SubSeq(path, 1, Len(path) - 1)
    ELSE path

\* mutant of FileItr_Init: every failed open is taken for a network failure
FileItr_Init_AnyError(spec, found) ==
    IF found.err # "ERROR_SUCCESS"
    THEN [ NewItr EXCEPT !.nFindFirst = 1,
                         !.lastError = found.err,
                         !.openErr = found.err,
                         !.mNetworkAvail = FALSE ]
    ELSE [ NewItr EXCEPT !.nFindFirst = 1,
                         !.mFindHandle = 1,
                         !.handleOpen = TRUE,
                         !.listing = found.listing,
                         !.pos = 1,
                         !.mpFindData = found.listing[1],
                         !.mSpec = found.listing[1].cFileName ]

\* The FileItr when FindFirstFileExA has answered r on the path fs: no
\* handle and zeroed find data after a failure, else the first entry of the
\* listing in the find data
Found(fs, r) ==
    LET reset == [ NewItr EXCEPT !.asserted = ~ValidateAsserts(fs),
                                 !.lpFileName = fs,
                                 !.nFindFirst = 1,
                                 !.lastError = r.err,
                                 !.openErr = r.err ]
    IN
    IF r.err # "ERROR_SUCCESS"
    THEN [ reset EXCEPT
             !.mNetworkAvail =
                 IF r.err = "ERROR_BAD_NETPATH" THEN FALSE ELSE @ ]
    ELSE [ reset EXCEPT !.mFindHandle = 1,
                        !.handleOpen = TRUE,
                        !.listing = r.listing,
                        !.pos = 1,
                        !.mpFindData = r.listing[1] ]

\* ~FileItr
FileItr_Dtor(it) == FileItr_Close(it)

\* mutant of FileItr_Init: Init does not return when FindFirstFileExA has
\* failed
FileItr_Init_NoReturn(spec, found) ==
    TheOne({ AssignCurrent(
                TheOne({ [ skipped EXCEPT !.mVol = sp.vol,
                                          !.mDir = sp.dir ] :
                            skipped \in {SkipSpecialFolders(first)} })) :
                <<first, sp>> \in
                   { <<Found(fs, r), Split3(fs)>> :
                        fs \in {FindPath(spec)}, r \in {found} } })

\* FileItr( spec ): the member initialisers and Init( spec ), where found is
\* the answer of FindFirstFileExA on FindPath( spec )
FileItr_Init(spec, found) ==
    TheOne({ IF ~FileItr_Exists(first) THEN first
             ELSE AssignCurrent(
                     TheOne({ [ skipped EXCEPT !.mVol = sp.vol,
                                               !.mDir = sp.dir ] :
                                 skipped \in {SkipSpecialFolders(first)} })) :
                <<first, sp>> \in
                   { <<Found(fs, r), Split3(fs)>> :
                        fs \in {FindPath(spec)}, r \in {found} } })

-----------------------------------------------------------------------------
\* File (File.h / File.cpp) and the Win32 file handles it wraps

\* CreateFileW calls one File object is taken through
MaxOpens == 3

\* Width of uint32_t and DWORD in the model, scaled down from 32 bits
DWordBits == 3

\* std::numeric_limits< uint32_t >::max()
UINT32_MAX == 2^DWordBits - 1

\* FileFlags
FileFlags ==
    {"Write", "Read", "SharedRead", "SharedWrite", "SharedDelete",
     "SequentialScan", "RandomAccess"}

\* The flag combinations Create and Open are called with: reading, writing,
\* none of the two, and both scan hints at once
FlagInputs ==
    { {"Read"}, {"Write", "SharedRead"},
      {"Read", "SharedRead", "SequentialScan"},
      {"SharedRead"},
      {"Read", "SequentialScan", "RandomAccess"} }

\* The paths a File is constructed on: none, a file name, a file in a
\* directory, a directory
FilePaths ==
    { <<>>, <<"f">>, <<"d", "\\", "f">>, <<"d", "\\">> }

\* path_.has_filename(): the path has a last element
has_filename(path) ==
    path # <<>> /\ path[Len(path)] # "\\" /\ path[Len(path)] # "/"

\* path_.has_parent_path(): there is something before the last element
has_parent_path(path) ==
    \E k \in 1..Len(path) : path[k] = "\\" \/ path[k] = "/"

\* A File after its constructor, together with the OS side of it: the file
\* handles of this object that are open in the OS, how often CreateFileW was
\* called and how often it gave a handle, how often CloseHandle was called,
\* and whether CloseHandle was called on a handle that is not open. The n-th
\* CreateFileW call yields the handle n when it succeeds; asserted records a
\* failed assert
NewFile(path) ==
    [ path_        |-> path,
      file_        |-> INVALID_HANDLE_VALUE,
      osOpen       |-> {},
      nCreateFile  |-> 0,
      nAcquired    |-> 0,
      nCloseHandle |-> 0,
      badClose     |-> FALSE,
      asserted     |-> FALSE ]

\* the two assertions of the CreateFileParams constructor
CreateFileParams(flags) ==
    /\ ~("SequentialScan" \in flags /\ "RandomAccess" \in flags)
    /\ ("Read" \in flags \/ "Write" \in flags)

\* file_ = ::CreateFileW( ... ), which succeeds when ok, and never on an empty
\* path
CreateFileW(f, ok) ==
    IF ok /\ f.path_ # <<>>
    THEN [ f EXCEPT !.nCreateFile = @ + 1,
                    !.nAcquired = @ + 1,
                    !.file_ = f.nCreateFile + 1,
                    !.osOpen = @ \cup {f.nCreateFile + 1} ]
    ELSE [ f EXCEPT !.nCreateFile = @ + 1,
                    !.file_ = INVALID_HANDLE_VALUE ]

\* ::CloseHandle( file_ )
CloseHandle(f) ==
    [ f EXCEPT !.nCloseHandle = @ + 1,
               !.badClose = @ \/ f.file_ \notin f.osOpen,
               !.osOpen = @ \ {f.file_} ]

File_IsOpen(f) == f.file_ # INVALID_HANDLE_VALUE

File_Close(f) ==
    IF f.file_ # INVALID_HANDLE_VALUE
    THEN [ CloseHandle(f) EXCEPT !.file_ = INVALID_HANDLE_VALUE ]
    ELSE f

\* ~File
File_Dtor(f) ==
    IF f.file_ # INVALID_HANDLE_VALUE THEN CloseHandle(f) ELSE f

\* The assertions Create and Open start with
OpenAsserts(f, flags) ==
    /\ CreateFileParams(flags)
    /\ (has_filename(f.path_) \/ has_parent_path(f.path_))

\* mutant of File_Open: the file is opened over the handle that is held
File_Open_NoClose(f, flags, ok) ==
    CreateFileW([ f EXCEPT !.asserted = @ \/ ~OpenAsserts(f, flags) ], ok)

\* Open( flags ), where CreateFileW succeeds when ok
File_Open(f, flags, ok) ==
    CreateFileW(
        File_Close([ f EXCEPT !.asserted = @ \/ ~OpenAsserts(f, flags) ]),
        ok)

\* Create( flags ), where fs::create_directories returns when dirsOk and
\* throws otherwise, and CreateFileW succeeds when ok
File_Create(f, flags, dirsOk, ok) ==
    LET closed ==
            File_Close([ f EXCEPT !.asserted = @ \/ ~OpenAsserts(f, flags) ])
    IN IF has_parent_path(f.path_) /\ ~dirsOk THEN closed
       ELSE CreateFileW(closed, ok)

\* SetFile( path )
File_SetFile(f, path) == [ File_Close(f) EXCEPT !.path_ = path ]

\* The lengths GetLength answers: an empty file, short files, the longest
\* file a uint32_t can count, and files longer than that
FileLengths ==
    {0, 1, 2, UINT32_MAX, UINT32_MAX + 1, UINT32_MAX + 2,
     2 * (UINT32_MAX + 1)}

\* static_cast< uint32_t >( len )
ToUInt32(len) == len % (2^DWordBits)

\* What ::ReadFile can answer to a request for bytes bytes: all of them,
\* fewer (the file has shrunk since its length was taken), or a failure
ReadFileResults(bytes) ==
    { [ success |-> TRUE, br |-> bytes ],
      [ success |-> FALSE, br |-> 0 ] }
    \cup (IF bytes > 0 THEN { [ success |-> TRUE, br |-> bytes - 1 ] }
          ELSE {})

\* ::ReadFile( file_, pBuffer, bytes32, &br, NULL ), where rf is the answer
\* for a file; the handle of a directory cannot be read from
ReadFile(f, rf) ==
    IF has_filename(f.path_) THEN rf ELSE [ success |-> FALSE, br |-> 0 ]

\* The assertions of Read( pBuffer, bytes, bytesRead )
ReadAsserts(f, pBufferNull, bytes) ==
    /\ has_filename(f.path_)
    /\ File_IsOpen(f)
    /\ ~pBufferNull
    /\ bytes > 0
    /\ bytes <= UINT32_MAX

\* Read( pBuffer, bytes ): true when ReadFile succeeded and read them all
File_Read(f, bytes, rf) ==
    ReadFile(f, rf).success /\ bytes = ReadFile(f, rf).br

\* What the OS and the allocator answer during one ReadEntireFile: whether
\* the file can be opened, its length, whether resize finds the memory,
\* whether data() of an empty result is a null pointer, and what ReadFile
\* does
OsAnswers ==
    UNION { { [ openOk |-> o, len |-> l, allocOk |-> a, dataNull |-> d,
                read |-> r ] :
                 o \in BOOLEAN, a \in BOOLEAN, d \in BOOLEAN,
                 r \in ReadFileResults(ToUInt32(l)) } :
              l \in FileLengths }

\* The sizes the caller's result has before the call
ResultSizes == {0, 2}

\* The outcome of a ReadEntireFile call: the value returned, the size of
\* result, the File f after its destructor, and how far the call came:
\* whether Open succeeded, the length taken, whether the length was
\* refused, whether resize threw, whether Read was called and what it
\* returned, and whether its assertions held
NoRead ==
    [ ret |-> FALSE, result |-> 0, before |-> 0, f |-> NewFile(<<>>),
      opened |-> FALSE, len |-> 0, tooLong |-> FALSE, badAlloc |-> FALSE,
      readCalled |-> FALSE, readOk |-> FALSE, readAsserts |-> TRUE ]

\* mutant of ReadEntireFile: the length is not compared with the largest
\* uint32_t
ReadEntireFile_NoLimit(path, result, os) ==
    LET f == File_Open(NewFile(path),
                       {"Read", "SharedRead", "SequentialScan"}, os.openOk)
        len32 == ToUInt32(os.len)
        start == [ NoRead EXCEPT !.result = result, !.before = result ]
    IN
    IF ~File_IsOpen(f)
    THEN [ start EXCEPT !.f = File_Dtor(f) ]
    ELSE IF len32 > result /\ ~os.allocOk
    THEN [ start EXCEPT !.f = File_Dtor(f), !.opened = TRUE,
                        !.len = os.len, !.badAlloc = TRUE ]
    ELSE [ start EXCEPT
             !.f = File_Dtor(f), !.opened = TRUE, !.len = os.len,
             !.readCalled = TRUE,
             !.readAsserts = ReadAsserts(f, len32 = 0 /\ os.dataNull, len32),
             !.readOk = File_Read(f, len32, os.read),
             !.ret = File_Read(f, len32, os.read),
             !.result = IF File_Read(f, len32, os.read) THEN len32 ELSE 0 ]

\* ReadEntireFile( path, result ), where result is the size of the caller's
\* result before the call and os what the OS and the allocator answer
ReadEntireFile(path, result, os) ==
    LET f == File_Open(NewFile(path),
                       {"Read", "SharedRead", "SequentialScan"}, os.openOk)
        len32 == ToUInt32(os.len)
        start == [ NoRead EXCEPT !.result = result, !.before = result ]
    IN
    IF ~File_IsOpen(f)
    THEN [ start EXCEPT !.f = File_Dtor(f) ]
    ELSE IF os.len > UINT32_MAX
    THEN [ start EXCEPT !.f = File_Dtor(f), !.opened = TRUE,
                        !.len = os.len, !.tooLong = TRUE ]
    ELSE IF len32 > result /\ ~os.allocOk
    THEN [ start EXCEPT !.f = File_Dtor(f), !.opened = TRUE,
                        !.len = os.len, !.badAlloc = TRUE ]
    ELSE [ start EXCEPT
             !.f = File_Dtor(f), !.opened = TRUE, !.len = os.len,
             !.readCalled = TRUE,
             !.readAsserts = ReadAsserts(f, len32 = 0 /\ os.dataNull, len32),
             !.readOk = File_Read(f, len32, os.read),
             !.ret = File_Read(f, len32, os.read),
             !.result = IF File_Read(f, len32, os.read) THEN len32 ELSE 0 ]

\* the File before it is constructed
NoFile == NewFile(<<>>)

-----------------------------------------------------------------------------
\* The state machine: one FileSpec object

NoArgs == [ vol |-> <<>>, dir |-> <<>>, file |-> <<>>, ext |-> <<>>,
            path |-> <<>> ]

Init ==
    /\ mFileSpec = <<>>
    /\ status = "none"
    /\ call = [ op |-> "none", args |-> NoArgs ]
    /\ itr = NewItr
    /\ tree = {}
    /\ stack = <<>>
    /\ visited = <<>>
    /\ opened = <<>>
    /\ handles = 0
    /\ fileObj = NoFile
    /\ rd = NoRead

\* FileSpec() = default
CtorDefault ==
    /\ status = "none"
    /\ mFileSpec' = <<>>
    /\ status' = "ok"
    /\ call' = [ op |-> "FileSpec", args |-> NoArgs ]
    /\ UNCHANGED <<itrVars, walkVars, fileVars>>

\* explicit FileSpec( const std::string& sFullPath )
CtorPath ==
    /\ status = "none"
    /\ \E s \in PathInputs :
          /\ mFileSpec' = s
          /\ status' \in Validate(s)
          /\ call' = [ op |-> "CtorPath", args |-> [NoArgs EXCEPT !.path = s] ]
    /\ UNCHANGED <<itrVars, walkVars, fileVars>>

\* FileSpec( vol, dir, file )
Ctor3 ==
    /\ status = "none"
    /\ \E vol \in VolInputs, dir \in DirInputs, file \in FileInputs :
          /\ mFileSpec' = Assemble3(vol, dir, file)
          /\ status' \in Validate(mFileSpec')
          /\ call' = [ op |-> "Ctor3",
                       args |-> [NoArgs EXCEPT !.vol = vol, !.dir = dir,
                                               !.file = file] ]
    /\ UNCHANGED <<itrVars, walkVars, fileVars>>

\* FileSpec( vol, dir, file, ext )
Ctor4 ==
    /\ status = "none"
    /\ \E vol \in VolInputs, dir \in DirInputs4, file \in FileInputs,
          ext \in ExtInputs :
          /\ mFileSpec' = Assemble4(vol, dir, file, ext)
          /\ status' \in Validate(mFileSpec')
          /\ call' = [ op |-> "Ctor4",
                       args |-> [NoArgs EXCEPT !.vol = vol, !.dir = dir,
                                               !.file = file, !.ext = ext] ]
    /\ UNCHANGED <<itrVars, walkVars, fileVars>>

\* Assign( const std::string& ), also reached through Assign( const FileSpec& )
\* and AssignPath: the buffer is replaced first, then validated
Assign ==
    /\ status = "ok"
    /\ \E s \in AssignInputs :
          /\ mFileSpec' = s
          /\ status' \in Validate(s)
          /\ call' = [ op |-> "Assign",
                       args |-> [NoArgs EXCEPT !.path = s] ]
    /\ UNCHANGED <<itrVars, walkVars, fileVars>>

Next == CtorDefault \/ CtorPath \/ Ctor3 \/ Ctor4 \/ Assign

Spec == Init /\ [][Next]_vars

-----------------------------------------------------------------------------
\* The state machine: one FileItr object from construction to destruction.
\* call.args.path keeps the FileSpec the constructor was given

\* the calls after which the FileItr object is there to be called again
ItrCalls == {"FileItr", "operator++", "operator*", "GetAttrib"}

\* explicit FileItr( const FileSpec& )
ItrConstruct ==
    /\ call.op = "none"
    /\ \E spec \in ItrPatterns, found \in FindResults :
          /\ itr' = FileItr_Init(spec, found)
          /\ call' = [ op |-> "FileItr",
                       args |-> [NoArgs EXCEPT !.path = spec] ]
    /\ UNCHANGED <<fileSpecVars, walkVars, fileVars>>

\* operator ++, whatever state the caller finds the FileItr in
ItrIncrement ==
    /\ call.op \in ItrCalls
    /\ itr' = FileItr_Inc(itr)
    /\ call' = [ call EXCEPT !.op = "operator++" ]
    /\ UNCHANGED <<fileSpecVars, walkVars, fileVars>>

\* operator * and operator ->
ItrDeref ==
    /\ call.op \in ItrCalls
    /\ itr' = FileItr_Star(itr)
    /\ call' = [ call EXCEPT !.op = "operator*" ]
    /\ UNCHANGED <<fileSpecVars, walkVars, fileVars>>

\* GetAttrib
ItrGetAttrib ==
    /\ call.op \in ItrCalls
    /\ itr' = FileItr_GetAttrib(itr)
    /\ call' = [ call EXCEPT !.op = "GetAttrib" ]
    /\ UNCHANGED <<fileSpecVars, walkVars, fileVars>>

\* ~FileItr
ItrDestroy ==
    /\ call.op \in ItrCalls
    /\ itr' = FileItr_Dtor(itr)
    /\ call' = [ call EXCEPT !.op = "~FileItr" ]
    /\ UNCHANGED <<fileSpecVars, walkVars, fileVars>>

NextItr ==
    ItrConstruct \/ ItrIncrement \/ ItrDeref \/ ItrGetAttrib \/ ItrDestroy

SpecItr == Init /\ [][NextItr]_vars

-----------------------------------------------------------------------------
\* DirTree::ForEach (DirTree.h) over a directory tree

\* Levels of folders below the directory the walk starts in
MaxDepth == 2

NoSubFolders == "NoSubFolders"

YesSubFolders == "YesSubFolders"

\* Entry names of the tree: a folder, a file with extension, a folder with
\* extension, a file without
NameS == <<"s">>

NameFA == <<"f", ".", "a">>

NameTA == <<"t", ".", "a">>

NameG == <<"g">>

\* the order the OS lists the entries of a directory in
NameOrder == <<NameTA, NameFA, NameS, NameG>>

\* An entry of the tree: its names from the start directory down, whether it
\* is a directory, and whether the OS lets the directory be listed
Node(path, isDir, canList) ==
    [ path |-> path, dir |-> isDir, readable |-> canList ]

RECURSIVE Subtrees(_, _)

\* The contents a directory at path prefix can have with d levels of folders
\* below it
Subtrees(prefix, d) ==
    LET fa == Node(Append(prefix, NameFA), FALSE, TRUE)
        g  == Node(Append(prefix, NameG), FALSE, TRUE)
        s  == Node(Append(prefix, NameS), TRUE, TRUE)
        inT == Node(Append(prefix, NameTA) \o <<NameFA>>, FALSE, TRUE)
        files == { {}, {fa, g} }
        sSubs == { {s} \cup sub :
                      sub \in Subtrees(Append(prefix, NameS), d - 1) }
        tSubs == { {Node(Append(prefix, NameTA), TRUE, TRUE)},
                   {Node(Append(prefix, NameTA), TRUE, TRUE), inT},
                   {Node(Append(prefix, NameTA), TRUE, FALSE), inT} }
    IN
    IF d = 0 THEN files
    ELSE { f \cup ss \cup ts :
              f \in files, ss \in {{}} \cup sSubs, ts \in {{}} \cup tSubs }

Trees == Subtrees(<<>>, MaxDepth)

\* The FileSpecs ForEach is called on
WalkPatterns ==
    { <<"r", "\\", "*", ".", "a">>,
      <<"a", ":", "\\", "r", "\\", "*">> }

Modes == {NoSubFolders, YesSubFolders}

\* Whether the OS takes name to match the file part pat of a searched path:
\* "*" matches every name, "*x" every name ending in x, anything else itself
Match(name, pat) ==
    IF pat = <<"*">> THEN TRUE
    ELSE IF pat # <<>> /\ pat[1] = "*"
    THEN /\ Len(name) >= Len(pat) - 1
         /\ SubSeq(name, Len(name) - Len(pat) + 2, Len(name)) = Tail(pat)
    ELSE name = pat

RECURSIVE SplitNames(_)

\* The directory names of a directory string, each ended by a separator
SplitNames(s) ==
    IF s = <<>> THEN <<>>
    ELSE LET i == CHOOSE k \in 1..Len(s) :
                     /\ s[k] = "\\"
                     /\ \A j \in 1..(k - 1) : s[j] # "\\"
         IN <<SubSeq(s, 1, i - 1)>> \o SplitNames(SubSeq(s, i + 1, Len(s)))

\* The find data of a node of the tree
EntryOf(n) ==
    [ cFileName |-> n.path[Len(n.path)],
      dwFileAttributes |->
          IF n.dir THEN {FILE_ATTRIBUTE_DIRECTORY} ELSE {} ]

\* The listing FindFirstFileExA gives for the file part file in the
\* directory at path p of the tree t: "." and "..", then the entries in the
\* order of the OS, each if its name matches
ListingOf(t, p, file) ==
    LET dots == IF Match(<<".">>, file) /\ Match(<<".", ".">>, file)
                THEN <<DotEntry, DotDotEntry>> ELSE <<>>
        Listed(nm) == /\ Match(nm, file)
                      /\ \E n \in t : n.path = Append(p, nm)
        kids == SelectSeq(NameOrder, Listed)
    IN dots \o [ k \in 1..Len(kids) |->
                   EntryOf(CHOOSE n \in t : n.path = Append(p, kids[k])) ]

\* FindFirstFileExA( path ) on the tree t whose start directory is the
\* string root: the entries of the directory of path that match its file
\* part
FindFirstFileExA(t, root, path) ==
    TheOne({
      IF ~( /\ Len(dstr) >= Len(root)
            /\ SubSeq(dstr, 1, Len(root)) = root
            /\ (dstr = <<>> \/ dstr[Len(dstr)] = "\\") )
      THEN [ err |-> "ERROR_PATH_NOT_FOUND", listing |-> <<>> ]
      ELSE TheOne({
             IF ~(p = <<>> \/ \E n \in t : n.path = p /\ n.dir)
             THEN [ err |-> "ERROR_PATH_NOT_FOUND", listing |-> <<>> ]
             ELSE IF ~(p = <<>> \/ \E n \in t : n.path = p /\ n.readable)
             THEN [ err |-> "ERROR_ACCESS_DENIED", listing |-> <<>> ]
             ELSE TheOne({
                    IF entries = <<>>
                    THEN [ err |-> "ERROR_FILE_NOT_FOUND", listing |-> <<>> ]
                    ELSE [ err |-> "ERROR_SUCCESS", listing |-> entries ] :
                       entries \in {ListingOf(t, p, file)} }) :
                p \in {SplitNames(SubSeq(dstr, Len(root) + 1, Len(dstr)))} }) :
         <<dstr, file>> \in { <<sp.vol \o sp.dir, sp.file>> :
                                 sp \in {Split3(path)} } })

\* the directory the walk was started in, as a string
WalkRoot ==
    LET sp == Split3(call.args.path) IN sp.vol \o sp.dir

\* mutant of OpenItr: a FileItr whose open failed holds a handle all the same
OpenItr_IgnoreFailure(spec) ==
    [ FileItr_Init(spec, FindFirstFileExA(tree, WalkRoot, FindPath(spec)))
        EXCEPT !.mFindHandle = 1 ]

\* FileItr i( spec ) on the tree
OpenItr(spec) ==
    TheOne({ FileItr_Init(fs, FindFirstFileExA(t, root, path)) :
                <<fs, path, t, root>> \in
                   { <<x, FindPath(x), tree, WalkRoot>> : x \in {spec} } })

\* One activation of ForEach( fs, fnForEach, mode ): pc is "enter" before the
\* first loop, "match" in the first loop, "descend" in the second loop and
\* "call" while the recursive call made from it runs; i is the FileItr of the
\* loop
Frame(fs, mode) ==
    [ fs |-> fs, mode |-> mode, pc |-> "enter", i |-> NewItr ]

top == stack[Len(stack)]

SetTop(f) == [ stack EXCEPT ![Len(stack)] = f ]

\* mutant of localSpec: the second loop searches with the caller's filter
localSpec_Filter(fs) == fs

\* FileSpec localSpec( FileSpec( vol, dir, "*" ) )
localSpec(fs) ==
    TheOne({ Assemble3(sp.vol, sp.dir, <<"*">>) : sp \in {Split3(fs)} })

\* mutant of subFolder: the child pattern searches for everything
subFolder_Wildcard(fs, i) ==
    Assemble3(Split3(fs).vol,
              Split3(fs).dir \o GetFile(FileItr_Deref(i)),
              <<"*">>)

\* FileSpec subFolder( vol, dir + i->GetFile(), file )
subFolder(fs, i) ==
    TheOne({ Assemble3(sp.vol, sp.dir \o GetFile(FileItr_Deref(i)), sp.file) :
                sp \in {Split3(fs)} })

\* mutant of ModeReturns: the mode is not looked at
ModeReturns_Never(mode) == FALSE

\* if( mode == Mode::NoSubFolders ) return;
ModeReturns(mode) == mode = NoSubFolders

\* mutant of Returned: the caller starts over with its first loop
Returned_Restart(frames) ==
    IF frames = <<>> THEN frames
    ELSE [ frames EXCEPT ![Len(frames)] = [ @ EXCEPT !.pc = "enter" ] ]

\* mutant of Returned: the caller's loop is not taken up again
Returned_NoResume(frames) == frames

\* The caller's loop after the activation above it has returned: ++i
Returned(frames) ==
    TheOne({ IF fr = <<>> THEN fr
             ELSE [ fr EXCEPT ![Len(fr)] =
                      [ @ EXCEPT !.pc = "descend", !.i = FileItr_Inc(@) ] ] :
                fr \in {frames} })

\* The search handles a FileItr has got from FindFirstFileExA
HandlesGot(i) ==
    IF i.nFindFirst = 1 /\ i.openErr = "ERROR_SUCCESS" THEN 1 ELSE 0

\* What a step that takes a FileItr from before to after adds to the number
\* of search handles open in the OS: each handle got counts one up, each
\* FindClose one down
HandleDelta(before, after) ==
    (HandlesGot(after) - HandlesGot(before))
        - (after.nFindClose - before.nFindClose)

\* The same for the ++i of the caller's loop, when the activation above it
\* has returned and left the frames after
ResumeDelta(after) ==
    IF after = <<>> THEN 0
    ELSE HandleDelta(stack[Len(stack) - 1].i, after[Len(after)].i)

\* DirTree::ForEach( fs, fnForEach, mode ) is called on some tree
WalkStart ==
    /\ call.op = "none"
    /\ \E t \in Trees, fs \in WalkPatterns, mode \in Modes :
          /\ tree' = t
          /\ stack' = <<Frame(fs, mode)>>
          /\ call' = [ op |-> "ForEach",
                       args |-> [NoArgs EXCEPT !.path = fs] ]
    /\ visited' = <<>>
    /\ opened' = <<>>
    /\ handles' = 0
    /\ UNCHANGED <<fileSpecVars, itrVars, fileVars>>

\* for( FileItr i( fs ); ...
WalkMatchOpen ==
    /\ stack # <<>>
    /\ top.pc = "enter"
    /\ \E n \in {OpenItr(top.fs)} :
          /\ stack' = SetTop([ top EXCEPT !.pc = "match", !.i = n ])
          /\ handles' = handles + HandleDelta(NewItr, n)
    /\ opened' = Append(opened, [ pass |-> "match", spec |-> top.fs,
                                  depth |-> Len(stack),
                                  mode |-> top.mode ])
    /\ UNCHANGED <<fileSpecVars, itrVars, fileVars, call, tree, visited>>

\* ... i.Exists(); ++i ) fnForEach( *i );
WalkVisit ==
    /\ stack # <<>>
    /\ top.pc = "match"
    /\ FileItr_Exists(top.i)
    /\ visited' = Append(visited, FileItr_Deref(top.i))
    /\ \E n \in {FileItr_Inc(FileItr_Star(top.i))} :
          /\ stack' = SetTop([ top EXCEPT !.i = n ])
          /\ handles' = handles + HandleDelta(top.i, n)
    /\ UNCHANGED <<fileSpecVars, itrVars, fileVars, call, tree, opened>>

\* the first loop is over and the mode asks for no more: the activation
\* returns, its FileItr is destroyed and the caller's loop goes on
WalkReturnShallow ==
    /\ stack # <<>>
    /\ top.pc = "match"
    /\ ~FileItr_Exists(top.i)
    /\ ModeReturns(top.mode)
    /\ \E d \in {FileItr_Dtor(top.i)},
          fr \in {Returned(SubSeq(stack, 1, Len(stack) - 1))} :
          /\ stack' = fr
          /\ handles' = handles + HandleDelta(top.i, d) + ResumeDelta(fr)
    /\ call' = IF Len(stack) = 1 THEN [ call EXCEPT !.op = "returned" ]
               ELSE call
    /\ UNCHANGED <<fileSpecVars, itrVars, fileVars, tree, visited, opened>>

\* the FileItr of the first loop is destroyed; for( FileItr i( localSpec ); ...
WalkDescendOpen ==
    /\ stack # <<>>
    /\ top.pc = "match"
    /\ ~FileItr_Exists(top.i)
    /\ ~ModeReturns(top.mode)
    /\ \E d \in {FileItr_Dtor(top.i)}, n \in {OpenItr(localSpec(top.fs))} :
          /\ stack' = SetTop([ top EXCEPT !.pc = "descend", !.i = n ])
          /\ handles' = handles + HandleDelta(top.i, d)
                                + HandleDelta(NewItr, n)
    /\ opened' = Append(opened, [ pass |-> "descend",
                                  spec |-> localSpec(top.fs),
                                  depth |-> Len(stack),
                                  mode |-> top.mode ])
    /\ UNCHANGED <<fileSpecVars, itrVars, fileVars, call, tree, visited>>

\* if( i.GetAttrib().IsFolder() ) ForEach( subFolder, fnForEach, mode );
WalkRecurse ==
    /\ stack # <<>>
    /\ top.pc = "descend"
    /\ FileItr_Exists(top.i)
    /\ FileAttrib_IsFolder(top.i.mpFindData)
    /\ \E n \in {FileItr_Star(FileItr_GetAttrib(top.i))} :
          stack' = Append(SetTop([ top EXCEPT !.pc = "call", !.i = n ]),
                          Frame(subFolder(top.fs, n), top.mode))
    /\ UNCHANGED <<fileSpecVars, itrVars, fileVars, call, tree, visited,
                   opened, handles>>

\* an entry that is not a folder: ++i
WalkSkipFile ==
    /\ stack # <<>>
    /\ top.pc = "descend"
    /\ FileItr_Exists(top.i)
    /\ ~FileAttrib_IsFolder(top.i.mpFindData)
    /\ \E n \in {FileItr_Inc(FileItr_GetAttrib(top.i))} :
          /\ stack' = SetTop([ top EXCEPT !.i = n ])
          /\ handles' = handles + HandleDelta(top.i, n)
    /\ UNCHANGED <<fileSpecVars, itrVars, fileVars, call, tree, visited,
                   opened>>

\* the second loop is over: the activation returns, its FileItr is destroyed
\* and the caller's loop goes on
WalkReturnDeep ==
    /\ stack # <<>>
    /\ top.pc = "descend"
    /\ ~FileItr_Exists(top.i)
    /\ \E d \in {FileItr_Dtor(top.i)},
          fr \in {Returned(SubSeq(stack, 1, Len(stack) - 1))} :
          /\ stack' = fr
          /\ handles' = handles + HandleDelta(top.i, d) + ResumeDelta(fr)
    /\ call' = IF Len(stack) = 1 THEN [ call EXCEPT !.op = "returned" ]
               ELSE call
    /\ UNCHANGED <<fileSpecVars, itrVars, fileVars, tree, visited, opened>>

\* the steps of a running ForEach
WalkStep ==
    \/ WalkMatchOpen
    \/ WalkVisit
    \/ WalkReturnShallow
    \/ WalkDescendOpen
    \/ WalkRecurse
    \/ WalkSkipFile
    \/ WalkReturnDeep

NextWalk == WalkStart \/ WalkStep

SpecWalk == Init /\ [][NextWalk]_vars

\* A program that takes one FileItr through its calls or runs one ForEach
NextItrWalk == NextItr \/ NextWalk

SpecItrWalk == Init /\ [][NextItrWalk]_vars

\* The walk as the one thread of a sequential program: a ForEach that can
\* take a step takes one
FairSpecWalk == SpecWalk /\ WF_vars(WalkStep)

-----------------------------------------------------------------------------
\* The state machine: one File object from construction to destruction, and
\* calls of the static ReadEntireFile

\* the calls after which the File object is there to be called again
FileCalls == {"File", "Create", "Open", "Close", "SetFile"}

\* File() and explicit File( const std::filesystem::path& )
FileConstruct ==
    /\ call.op = "none"
    /\ \E path \in FilePaths :
          /\ fileObj' = NewFile(path)
          /\ call' = [ op |-> "File", args |-> [NoArgs EXCEPT !.path = path] ]
    /\ UNCHANGED <<fileSpecVars, itrVars, walkVars, rd>>

\* Create( flags )
FileCreate ==
    /\ call.op \in FileCalls
    /\ fileObj.nCreateFile < MaxOpens
    /\ \E flags \in FlagInputs, dirsOk \in BOOLEAN, ok \in BOOLEAN :
          fileObj' = File_Create(fileObj, flags, dirsOk, ok)
    /\ call' = [ call EXCEPT !.op = "Create" ]
    /\ UNCHANGED <<fileSpecVars, itrVars, walkVars, rd>>

\* Open( flags )
FileOpen ==
    /\ call.op \in FileCalls
    /\ fileObj.nCreateFile < MaxOpens
    /\ \E flags \in FlagInputs, ok \in BOOLEAN :
          fileObj' = File_Open(fileObj, flags, ok)
    /\ call' = [ call EXCEPT !.op = "Open" ]
    /\ UNCHANGED <<fileSpecVars, itrVars, walkVars, rd>>

\* Close()
FileClose ==
    /\ call.op \in FileCalls
    /\ fileObj' = File_Close(fileObj)
    /\ call' = [ call EXCEPT !.op = "Close" ]
    /\ UNCHANGED <<fileSpecVars, itrVars, walkVars, rd>>

\* SetFile( path )
FileSetFile ==
    /\ call.op \in FileCalls
    /\ \E path \in FilePaths :
          /\ fileObj' = File_SetFile(fileObj, path)
          /\ call' = [ op |-> "SetFile",
                       args |-> [NoArgs EXCEPT !.path = path] ]
    /\ UNCHANGED <<fileSpecVars, itrVars, walkVars, rd>>

\* ~File
FileDestroy ==
    /\ call.op \in FileCalls
    /\ fileObj' = File_Dtor(fileObj)
    /\ call' = [ call EXCEPT !.op = "~File" ]
    /\ UNCHANGED <<fileSpecVars, itrVars, walkVars, rd>>

\* File::ReadEntireFile( path, result )
ReadEntireFileCall ==
    /\ call.op = "none"
    /\ \E path \in FilePaths, result \in ResultSizes, os \in OsAnswers :
          /\ rd' = ReadEntireFile(path, result, os)
          /\ call' = [ op |-> "ReadEntireFile",
                       args |-> [NoArgs EXCEPT !.path = path] ]
    /\ UNCHANGED <<fileSpecVars, itrVars, walkVars, fileObj>>

NextFile ==
    \/ FileConstruct
    \/ FileCreate
    \/ FileOpen
    \/ FileClose
    \/ FileSetFile
    \/ FileDestroy
    \/ ReadEntireFileCall

SpecFile == Init /\ [][NextFile]_vars

-----------------------------------------------------------------------------
\* Vocabulary of the properties

accepted == status = "ok"

HasChar(s, c) == \E i \in 1..Len(s) : s[i] = c

EndsIn(s, c) == s # <<>> /\ s[Len(s)] = c

\* the four parts put together again: the extension separator is written only
\* in front of a non-empty extension
Compose4(sp) ==
    sp.vol \o sp.dir \o sp.file
           \o (IF sp.ext # <<>> THEN <<".">> \o sp.ext ELSE <<>>)

WellFormedVol(v) == v = <<>> \/ (Len(v) = 2 /\ v[1] \in Letters /\ v[2] = ":")

SpansOrdered(p, n) ==
    /\ p.volBegin <= p.volEnd
    /\ p.volEnd = p.dirBegin
    /\ p.dirBegin <= p.dirEnd
    /\ p.dirEnd = p.fileBegin
    /\ p.fileBegin <= p.fileEnd
    /\ p.fileEnd <= p.extBegin
    /\ p.extBegin <= p.extEnd
    /\ p.extEnd = n

ExDirExtFileExt ==
    <<"d", "i", "r", ".", "e", "x", "t", "\\", "f", "i", "l", "e", ".", "e", "x", "t">>

ExFileExLongext ==
    <<"f", "i", "l", "e", ".", "e", "x", ".", "l", "o", "n", "g", "e", "x", "t">>

ExRelativeDir == <<".", ".", "\\", ".", ".", "\\", "d", "i", "r", "\\">>

-----------------------------------------------------------------------------
\* C1 (as stated): for every accepted path, vol + dir + stem + ('.' + ext only
\* when ext is non-empty) equals the path exactly.
C1_RoundTrip_AsStated ==
    accepted => Compose4(Split4(mFileSpec)) = GetFullPath(mFileSpec)

\* C1 (amended): for every accepted path that does not end in '.', the
\* four-way reassembly equals the path exactly; for an accepted path that ends
\* in '.', that '.' is the extension separator of an empty extension and the
\* reassembly is the path without its final '.'.
C1_RoundTrip ==
    accepted =>
        Compose4(Split4(mFileSpec)) =
            IF EndsIn(mFileSpec, ".")
            THEN SubSeq(mFileSpec, 1, Len(mFileSpec) - 1)
            ELSE mFileSpec

C1_Witness ==
    /\ accepted
    /\ call.op \in {"CtorPath", "Assign"}
    /\ Split4(mFileSpec).vol # <<>>
    /\ Split4(mFileSpec).dir # <<>>
    /\ Split4(mFileSpec).file # <<>>
    /\ Split4(mFileSpec).ext # <<>>

\* C2: for every path string given to FileSpec, ParseSpec's spans are
\* contiguous and ordered: volBegin <= volEnd = dirBegin <= dirEnd = fileBegin
\* <= fileEnd <= extBegin <= extEnd = end of string.
C2_SpansOrdered ==
    status # "none" => SpansOrdered(ParseSpec(mFileSpec), Len(mFileSpec))

\* C3: after constructions and Assign calls that complete without a
\* MalformedPath failure, GetVol() is empty or a letter followed by ':'.
C3_VolumeShape == accepted => WellFormedVol(GetVol(mFileSpec))

C3_Witness ==
    /\ accepted
    /\ call.op = "Assign"
    /\ GetVol(mFileSpec) # <<>>
    /\ GetDir(mFileSpec) # <<>>

\* C4: a '.' at or before the last '\' is never the extension separator: stem
\* and extension hold no '\'; when the last '.' precedes the last '\', the
\* extension is empty and the stem is everything after the last '\'; and
\* 'dir.ext\file.ext' gives directory 'dir.ext\', stem 'file', extension 'ext'.
C4_SeparatorPrecedence ==
    accepted =>
        /\ ~HasChar(GetExtension(mFileSpec), "\\")
        /\ ~HasChar(GetFileNoExtension(mFileSpec), "\\")
        /\ (/\ HasChar(mFileSpec, ".")
            /\ HasChar(mFileSpec, "\\")
            /\ rfind(mFileSpec, ".") < rfind(mFileSpec, "\\"))
           => /\ GetExtension(mFileSpec) = <<>>
              /\ GetFileNoExtension(mFileSpec) =
                    SubSeq(mFileSpec, rfind(mFileSpec, "\\") + 2, Len(mFileSpec))
        /\ mFileSpec = ExDirExtFileExt
           => /\ GetDir(mFileSpec) = <<"d", "i", "r", ".", "e", "x", "t", "\\">>
              /\ GetFileNoExtension(mFileSpec) = <<"f", "i", "l", "e">>
              /\ GetExtension(mFileSpec) = <<"e", "x", "t">>

C4_Witness ==
    /\ accepted
    /\ HasChar(GetDir(mFileSpec), ".")
    /\ GetFileNoExtension(mFileSpec) # <<>>
    /\ ~HasChar(GetFile(mFileSpec), ".")

\* C5: when the file part holds a '.', only its rightmost '.' separates stem
\* from extension: the extension holds no '.', stem + '.' + extension is the
\* file part (every earlier dot stays in the stem), and 'file.ex.longext'
\* gives stem 'file.ex', extension 'longext'.
C5_LastDot ==
    accepted =>
        /\ HasChar(GetFile(mFileSpec), ".")
           => /\ ~HasChar(GetExtension(mFileSpec), ".")
              /\ GetFileNoExtension(mFileSpec) \o <<".">> \o GetExtension(mFileSpec)
                    = GetFile(mFileSpec)
        /\ mFileSpec = ExFileExLongext
           => /\ GetFileNoExtension(mFileSpec) = <<"f", "i", "l", "e", ".", "e", "x">>
              /\ GetExtension(mFileSpec) = <<"l", "o", "n", "g", "e", "x", "t">>

C5_Witness ==
    /\ accepted
    /\ HasChar(GetFileNoExtension(mFileSpec), ".")
    /\ GetExtension(mFileSpec) # <<>>

\* C6: an accepted path that ends in '\' is entirely volume + directory (stem
\* and extension empty, also for '..\..\dir\'), and a path that is only a
\* volume has empty directory, stem and extension.
C6_EdgeCases ==
    accepted =>
        /\ EndsIn(mFileSpec, "\\")
           => /\ GetFileNoExtension(mFileSpec) = <<>>
              /\ GetExtension(mFileSpec) = <<>>
              /\ GetVol(mFileSpec) \o GetDir(mFileSpec) = mFileSpec
        /\ mFileSpec = ExRelativeDir
           => /\ GetVol(mFileSpec) = <<>>
              /\ GetDir(mFileSpec) = ExRelativeDir
        /\ (Len(mFileSpec) = 2 /\ mFileSpec[2] = ":")
           => /\ GetVol(mFileSpec) = mFileSpec
              /\ GetDir(mFileSpec) = <<>>
              /\ GetFileNoExtension(mFileSpec) = <<>>
              /\ GetExtension(mFileSpec) = <<>>

C6_Witness ==
    /\ accepted
    /\ EndsIn(mFileSpec, "\\")
    /\ GetVol(mFileSpec) # <<>>
    /\ Len(GetDir(mFileSpec)) > 1

\* the dir argument followed by the separator the part constructors append:
\* none after an empty dir or after a dir that ends in '\' or '/'
DirAsAssembled(dir) ==
    dir \o (IF dir # <<>> /\ ~EndsIn(dir, "\\") /\ ~EndsIn(dir, "/")
            THEN <<"\\">> ELSE <<>>)

\* what follows vol and dir in the string a part constructor assembled
RestAsAssembled ==
    SubSeq(mFileSpec,
           Len(call.args.vol) + Len(DirAsAssembled(call.args.dir)) + 1,
           Len(mFileSpec))

\* the parts are such that ParseSpec finds them again
PartsWellFormed ==
    /\ WellFormedVol(call.args.vol)
    /\ ~EndsIn(call.args.dir, "/")
    /\ ~HasChar(RestAsAssembled, "\\")
    /\ call.args.vol = <<>> => ~(Len(mFileSpec) > 1 /\ mFileSpec[2] = ":")

\* C7 (as stated): the part constructors append '\' after dir only if dir is
\* non-empty and does not end in '\', otherwise concatenate unchanged, and the
\* accepted result splits back into the same volume, dir with its trailing
\* separator, and the same file.
C7_PartsSplitBack_AsStated ==
    (accepted /\ call.op \in {"Ctor3", "Ctor4"}) =>
        LET a == call.args
            d == DirAsAssembled(a.dir)
        IN /\ SubSeq(mFileSpec, 1, Len(a.vol) + Len(d) + Len(a.file))
                 = a.vol \o d \o a.file
           /\ call.op = "Ctor3" => mFileSpec = a.vol \o d \o a.file
           /\ Len(d) > Len(a.dir) => (a.dir # <<>> /\ ~EndsIn(a.dir, "\\"))
           /\ GetVol(mFileSpec) = a.vol
           /\ GetDir(mFileSpec) = d
           /\ call.op = "Ctor3" => GetFile(mFileSpec) = a.file

\* C7 (amended): the part constructors append '\' after dir only if dir is
\* non-empty and ends in neither '\' nor '/', otherwise vol, dir and file are
\* concatenated unchanged; and when vol is empty or a letter plus ':', dir does
\* not end in '/', nothing after dir holds a '\', and (for an empty vol) the
\* second character of the assembled path is not ':', the accepted result
\* splits back into the same volume, dir with its trailing separator, and the
\* same file (for the four-part constructor: file with the extension text
\* appended to it).
C7_PartsSplitBack ==
    (accepted /\ call.op \in {"Ctor3", "Ctor4"}) =>
        LET a == call.args
            d == DirAsAssembled(a.dir)
        IN /\ SubSeq(mFileSpec, 1, Len(a.vol) + Len(d) + Len(a.file))
                 = a.vol \o d \o a.file
           /\ call.op = "Ctor3" => mFileSpec = a.vol \o d \o a.file
           /\ Len(d) > Len(a.dir) => (a.dir # <<>> /\ ~EndsIn(a.dir, "\\"))
           /\ PartsWellFormed
              => /\ GetVol(mFileSpec) = a.vol
                 /\ GetDir(mFileSpec) = d
                 /\ GetFile(mFileSpec) = RestAsAssembled
                 /\ call.op = "Ctor3" => GetFile(mFileSpec) = a.file

C7_Witness ==
    /\ accepted
    /\ call.op = "Ctor3"
    /\ PartsWellFormed
    /\ call.args.vol # <<>>
    /\ call.args.dir # <<>>
    /\ ~EndsIn(call.args.dir, "\\")
    /\ call.args.file # <<>>
    /\ GetDir(mFileSpec) = call.args.dir \o <<"\\">>

\* C8: the four-part constructor writes a '.' in front of ext only if ext is
\* non-empty and does not already start with one, so 'txt' and '.txt' give
\* the same path with exactly one '.' between file and extension.
C8_ExtSeparator ==
    call.op = "Ctor4" =>
        mFileSpec =
            call.args.vol \o DirAsAssembled(call.args.dir) \o call.args.file
                \o (IF call.args.ext # <<>> /\ Head(call.args.ext) # "."
                    THEN <<".">> ELSE <<>>)
                \o call.args.ext

\* C9 (as stated): IsFolder() is true iff stem and extension are both empty
\* while volume or directory is non-empty.
C9_IsFolder_AsStated ==
    accepted =>
        (IsFolder(mFileSpec) <=>
            /\ GetFileNoExtension(mFileSpec) = <<>>
            /\ GetExtension(mFileSpec) = <<>>
            /\ (GetVol(mFileSpec) # <<>> \/ GetDir(mFileSpec) # <<>>))

\* C9 (amended): IsFolder() is true iff stem and extension are both empty,
\* the path does not end in the extension separator '.', and volume or
\* directory is non-empty.
C9_IsFolder ==
    accepted =>
        (IsFolder(mFileSpec) <=>
            /\ GetFileNoExtension(mFileSpec) = <<>>
            /\ GetExtension(mFileSpec) = <<>>
            /\ ~EndsIn(mFileSpec, ".")
            /\ (GetVol(mFileSpec) # <<>> \/ GetDir(mFileSpec) # <<>>))

C9_Witness ==
    /\ accepted
    /\ IsFolder(mFileSpec)
    /\ GetVol(mFileSpec) = <<>>
    /\ GetDir(mFileSpec) # <<>>

\* C10 (as stated): IsFile() is true iff the stem is non-empty.
C10_IsFile_AsStated ==
    accepted => (IsFile(mFileSpec) <=> GetFileNoExtension(mFileSpec) # <<>>)

\* C10 (amended): IsFile() is true iff the stem is non-empty, or the
\* extension is non-empty, or the path ends in the extension separator '.'
\* (anything at all follows the directory).
C10_IsFile ==
    accepted =>
        (IsFile(mFileSpec) <=>
            \/ GetFileNoExtension(mFileSpec) # <<>>
            \/ GetExtension(mFileSpec) # <<>>
            \/ EndsIn(mFileSpec, "."))

C10_Witness ==
    /\ accepted
    /\ IsFile(mFileSpec)
    /\ GetFileNoExtension(mFileSpec) # <<>>
    /\ GetDir(mFileSpec) # <<>>

-----------------------------------------------------------------------------
\* Properties of FileItr

\* a FileItr object exists: constructed and not yet destroyed
itrLive == call.op \in ItrCalls

\* the FileSpec the FileItr was constructed on
itrPattern == call.args.path

IsSpecialName(name) == name = <<".">> \/ name = <<".", ".">>

\* FindFirstFileExA gave no handle
openFailed == itr.nFindFirst = 1 /\ itr.openErr # "ERROR_SUCCESS"

\* the entries the OS cursor passed over in the step, the one it stops on
\* left out
passedOver == { k \in 1..Len(itr'.listing) : itr.pos < k /\ k < itr'.pos }

\* the entries from the OS cursor to the end of the listing
leftBehind == { k \in 1..Len(itr'.listing) : itr.pos < k }

\* C11: whenever a FileItr reports Exists() after its construction or after a
\* ++, the entry under the cursor (the OS entry, the find data and the file
\* part of *itr) is not named "." or ".."; the entries the step passed over
\* are exactly such special folders, and a step that ends the listing has
\* only such entries behind it, so they are skipped also when consecutive or
\* last in the listing
C11_SkipSpecial ==
    [][ /\ (itrLive' /\ FileItr_Exists(itr')) =>
              /\ itr'.mpFindData = itr'.listing[itr'.pos]
              /\ ~IsSpecialName(itr'.mpFindData.cFileName)
              /\ ~IsSpecialName(GetFile(FileItr_Deref(itr')))
              /\ \A k \in passedOver :
                    IsSpecialName(itr'.listing[k].cFileName)
        /\ (itrLive' /\ ~openFailed' /\ ~FileItr_Exists(itr')) =>
              \A k \in leftBehind :
                    IsSpecialName(itr'.listing[k].cFileName)
      ]_vars

\* a ++ has stepped over "." and ".." in a row and stopped on a third entry
C11_Witness ==
    /\ call.op = "operator++"
    /\ FileItr_Exists(itr)
    /\ Len(itr.listing) > 3
    /\ itr.pos = 4
    /\ itr.listing[2].cFileName = <<".">>
    /\ itr.listing[3].cFileName = <<".", ".">>

\* C12 as stated: volume and directory of *itr are those of the pattern the
\* constructor was given
C12_CurrentSpec_AsStated ==
    (itrLive /\ FileItr_Exists(itr)) =>
        FileItr_Deref(itr) =
            Assemble3(GetVol(itrPattern), GetDir(itrPattern),
                      itr.listing[itr.pos].cFileName)

\* C12: whenever a FileItr is positioned, *itr is FileSpec( volume,
\* directory, name ) with volume and directory split from the pattern as
\* handed to the OS, that is without its one trailing separator, and name the
\* name of the OS entry the cursor is on now
C12_CurrentSpec ==
    (itrLive /\ FileItr_Exists(itr)) =>
        FileItr_Deref(itr) =
            Assemble3(GetVol(FindPath(itrPattern)),
                      GetDir(FindPath(itrPattern)),
                      itr.listing[itr.pos].cFileName)

\* after a ++ the FileItr stands on a later entry of a listing opened on a
\* pattern that ended in a separator
C12_Witness ==
    /\ call.op = "operator++"
    /\ FileItr_Exists(itr)
    /\ itr.pos > 1
    /\ EndsIn(itrPattern, "\\")
    /\ itr.listing[itr.pos].cFileName # itr.listing[1].cFileName

\* C13: a FileItr whose listing could not be opened does not exist, and
\* IsNetworkAvailable() is false exactly when the open failed with
\* ERROR_BAD_NETPATH: it is true after a not-found failure, after a
\* successful open and after the end of the listing
C13_NetworkAvail ==
    (itrLive \/ call.op = "~FileItr") =>
        /\ openFailed => ~FileItr_Exists(itr)
        /\ ~FileItr_IsNetworkAvailable(itr) <=>
              itr.openErr = "ERROR_BAD_NETPATH"

\* the open failed on an unreachable network path
C13_Witness ==
    /\ itrLive
    /\ itr.openErr = "ERROR_BAD_NETPATH"
    /\ ~FileItr_Exists(itr)
    /\ ~FileItr_IsNetworkAvailable(itr)

\* C14: FindClose is called at most once and only on an open handle, never
\* after a failed open; the handle is open exactly while the FileItr
\* exists, and it has been closed once when the listing is exhausted or the
\* FileItr destroyed
C14_HandleClosedOnce ==
    /\ itr.nFindClose <= 1
    /\ ~itr.badClose
    /\ openFailed => itr.nFindClose = 0
    /\ itr.handleOpen <=> FileItr_Exists(itr)
    /\ ((itrLive \/ call.op = "~FileItr") /\ ~openFailed
          /\ ~FileItr_Exists(itr)) => itr.nFindClose = 1
    /\ call.op = "~FileItr" => ~itr.handleOpen

\* a FileItr was destroyed after its listing had been exhausted by ++
C14_Witness ==
    /\ call.op = "~FileItr"
    /\ itr.nFindClose = 1
    /\ itr.pos = Len(itr.listing)
    /\ itr.pos > 1
    /\ ~IsSpecialName(itr.listing[itr.pos].cFileName)

-----------------------------------------------------------------------------
\* Properties of DirTree::ForEach

walkDone == call.op = "returned"

\* the mode ForEach was called with
walkMode ==
    IF stack # <<>> THEN stack[1].mode
    ELSE IF opened # <<>> THEN opened[1].mode
    ELSE "none"

\* the file part of the pattern ForEach was called with
walkFile == Split3(call.args.path).file

RECURSIVE JoinNames(_)

JoinNames(path) ==
    IF Len(path) = 1 THEN path[1]
    ELSE path[1] \o <<"\\">> \o JoinNames(Tail(path))

\* the full path of a node of the tree whose start directory is root
NodeSpec(root, n) == root \o JoinNames(n.path)

NodeName(n) == n.path[Len(n.path)]

\* the directory at path p, the start directory if p is empty, can be
\* reached and listed
Listable(p) ==
    \A k \in 1..Len(p) :
       \E n \in tree : n.path = SubSeq(p, 1, k) /\ n.dir /\ n.readable

InListable(n) == Listable(SubSeq(n.path, 1, Len(n.path) - 1))

AllListable == \A n \in tree : n.readable

\* the entries whose names match the file part
Matching(file) == { n \in tree : Match(NodeName(n), file) }

\* the full paths of the matching entries at all levels, at the listable
\* levels, and at the start level
AllMatches ==
    LET root == WalkRoot IN
    { NodeSpec(root, n) : n \in Matching(walkFile) }

DueMatches ==
    LET root == WalkRoot IN
    { NodeSpec(root, n) : n \in { m \in Matching(walkFile) : InListable(m) } }

TopMatches ==
    LET root == WalkRoot IN
    { NodeSpec(root, n) :
         n \in { m \in Matching(walkFile) : Len(m.path) = 1 } }

visitedSet == { visited[i] : i \in 1..Len(visited) }

NoRepeat ==
    \A i, j \in 1..Len(visited) : i # j => visited[i] # visited[j]

\* volume and directory of a full path that has no volume without a
\* directory: all up to its last separator
DirOf(s) == SubSeq(s, 1, rfind(s, "\\") + 1)

\* directory string x lies strictly below directory string d
IsUnder(x, d) == Len(x) > Len(d) /\ SubSeq(x, 1, Len(d)) = d

InSubtree(s, d) == DirOf(s) = d \/ IsUnder(DirOf(s), d)

\* the directory strings of the folders of the tree
FolderDirs ==
    LET root == WalkRoot IN
    { NodeSpec(root, n) \o <<"\\">> : n \in { m \in tree : m.dir } }

\* the patterns the first loops were opened on
matchSpecs ==
    { opened[k].spec :
         k \in { j \in 1..Len(opened) : opened[j].pass = "match" } }

\* the patterns of the activations for the folders of the listable levels
ChildPatterns ==
    LET root == WalkRoot
        file == walkFile
    IN
    { NodeSpec(root, n) \o <<"\\">> \o file :
         n \in { m \in tree : m.dir /\ InListable(m) } }

\* C15: in YesSubFolders mode the visitor is never called for an entry that
\* does not match the file part of the pattern and never twice for the same
\* entry, always with the full path of the entry, and when ForEach has
\* returned from a tree all of whose directories can be listed it has been
\* called for every matching entry at every depth
C15_Completeness ==
    walkMode = YesSubFolders =>
        /\ visitedSet \subseteq AllMatches
        /\ NoRepeat
        /\ (walkDone /\ AllListable) => visitedSet = AllMatches

\* a walk with a filter has returned from a tree that holds matching entries
\* two folders down and entries that do not match
C15_Witness ==
    /\ walkDone
    /\ walkMode = YesSubFolders
    /\ AllListable
    /\ walkFile = <<"*", ".", "a">>
    /\ \E n \in tree :
          Len(n.path) = 3 /\ NodeSpec(WalkRoot, n) \in visitedSet
    /\ \E n \in tree : Len(n.path) = 3 /\ n \notin Matching(walkFile)

\* C16: at any moment of a walk, for the entry visited last (and so, one
\* visit after the other, for every visit): every matching entry of the
\* listable levels above its directory has been visited before it, no entry
\* of a directory below its own has, and if an earlier visit lies in the
\* subtree of a folder it lies in, then so does the visit just before it,
\* so the visits of one subtree are never interleaved with others
C16_VisitOrder ==
    visited # <<>> =>
       LET n == Len(visited)
           before == { visited[i] : i \in 1..(n - 1) }
       IN
       \A d \in {DirOf(visited[n])} :
          /\ \A s \in DueMatches : IsUnder(d, DirOf(s)) => s \in before
          /\ \A s \in before : ~IsUnder(DirOf(s), d)
          /\ \A f \in FolderDirs :
                ((d = f \/ IsUnder(d, f))
                    /\ \E s \in before : InSubtree(s, f))
                   => InSubtree(visited[n - 1], f)

\* entries of the start level, then of a first subfolder, then of a second
\* subfolder and of a folder inside that one have been visited
C16_Witness ==
    /\ walkDone
    /\ Len(visited) >= 4
    /\ DirOf(visited[1]) = WalkRoot
    /\ \E i, j, k \in 1..Len(visited) :
          /\ i < j /\ j < k
          /\ DirOf(visited[i]) # WalkRoot
          /\ DirOf(visited[j]) # WalkRoot
          /\ ~InSubtree(visited[j], DirOf(visited[i]))
          /\ IsUnder(DirOf(visited[k]), DirOf(visited[j]))

\* C17: in NoSubFolders mode ForEach constructs one FileItr, on the pattern
\* it was called with, never the one on the wildcard pattern, never calls
\* itself, visits only entries of the pattern's directory, and has visited
\* all matching entries of it when it returns
C17_Shallow ==
    walkMode = NoSubFolders =>
        /\ Len(stack) <= 1
        /\ Len(opened) <= 1
        /\ \A k \in 1..Len(opened) :
              /\ opened[k].pass = "match"
              /\ opened[k].spec = call.args.path
        /\ \A i \in 1..Len(visited) : DirOf(visited[i]) = WalkRoot
        /\ NoRepeat
        /\ walkDone => (Len(opened) = 1 /\ visitedSet = TopMatches)

\* a shallow walk has returned from a tree that holds a matching entry in a
\* subfolder
C17_Witness ==
    /\ walkDone
    /\ walkMode = NoSubFolders
    /\ visited # <<>>
    /\ \E n \in Matching(walkFile) : Len(n.path) = 2 /\ InListable(n)

\* C18: in YesSubFolders mode the FileItr of the second loop is constructed
\* on volume + directory + "*" of the activation's pattern; an activation
\* called from that loop has the pattern volume + directory + name +
\* separator + file, where name is the entry under the caller's cursor and
\* has the directory attribute, and the caller's mode; and when ForEach has
\* returned, an activation has run for every folder of every listable level,
\* whether or not its name matches the file part
C18_Descend ==
    walkMode = YesSubFolders =>
        /\ \A k \in 1..Len(opened) :
              /\ opened[k].mode = YesSubFolders
              /\ opened[k].pass = "descend" =>
                    /\ k > 1
                    /\ opened[k - 1].pass = "match"
                    /\ opened[k - 1].depth = opened[k].depth
                    /\ opened[k].spec =
                          LET sp == Split3(opened[k - 1].spec) IN
                          sp.vol \o sp.dir \o <<"*">>
        /\ \A k \in 1..(Len(stack) - 1) :
              LET caller == stack[k]
                  entry == caller.i.listing[caller.i.pos]
                  sp == Split3(caller.fs)
              IN
              /\ caller.pc = "call"
              /\ FileItr_Exists(caller.i)
              /\ FILE_ATTRIBUTE_DIRECTORY \in entry.dwFileAttributes
              /\ stack[k + 1].fs =
                    sp.vol \o sp.dir \o entry.cFileName \o <<"\\">> \o sp.file
              /\ stack[k + 1].mode = caller.mode
        /\ walkDone => matchSpecs = {call.args.path} \cup ChildPatterns

\* a walk with a filter has returned from a tree with a folder whose name
\* does not match the filter and that holds a folder itself
C18_Witness ==
    /\ walkDone
    /\ walkMode = YesSubFolders
    /\ walkFile = <<"*", ".", "a">>
    /\ \E n \in tree :
          /\ n.dir
          /\ Len(n.path) = 2
          /\ ~Match(NodeName(n), walkFile)
          /\ NodeSpec(WalkRoot, n) \o <<"\\">> \o walkFile \in matchSpecs

\* C19: a FileItr that could not be opened never asserts and never stops
\* the walk: while ForEach has not returned, the activation on top of the
\* stack is at a point of its loops from which it goes on; an
\* activation whose first FileItr failed has visited nothing at its level,
\* one whose second FileItr failed has called nothing; and when ForEach has
\* returned it has visited every matching entry of every listable level and
\* nothing below a directory that cannot be listed
C19_FailureContained ==
    /\ call.op = "ForEach" => (stack # <<>> /\ top.pc # "call")
    /\ \A k \in 1..Len(stack) :
          /\ ~stack[k].i.asserted
          /\ (stack[k].pc = "match"
                /\ stack[k].i.openErr # "ERROR_SUCCESS") =>
                \A i \in 1..Len(visited) :
                   DirOf(visited[i]) # DirOf(stack[k].fs)
          /\ (stack[k].pc \in {"descend", "call"}
                /\ stack[k].i.openErr # "ERROR_SUCCESS") =>
                /\ k = Len(stack)
                /\ \A j \in 1..Len(opened) :
                      ~IsUnder(DirOf(opened[j].spec), DirOf(stack[k].fs))
    /\ (walkDone /\ walkMode = YesSubFolders) =>
          (visitedSet = DueMatches /\ NoRepeat)

\* a walk has returned from a tree with a folder that cannot be listed and
\* holds a matching entry, after visiting entries of a folder listed later
C19_Witness ==
    /\ walkDone
    /\ walkMode = YesSubFolders
    /\ \E n \in Matching(walkFile) : ~InListable(n)
    /\ \E k \in 1..Len(opened) :
          /\ opened[k].spec =
                <<"r", "\\", "t", ".", "a", "\\", "*", ".", "a">>
          /\ \E n \in Matching(walkFile) :
                /\ Len(n.path) = 3
                /\ NodeSpec(WalkRoot, n) \in visitedSet

-----------------------------------------------------------------------------
\* Properties of a failed FileSpec construction or assignment

\* C20: when a constructor or Assign fails with MalformedPath (or in the
\* out-of-range construction before it), the FileSpec does not hold a string
\* that fails validation, and after a failed Assign it still holds the
\* string it held before
C20_NoHalfFormed ==
    [][ (status' # "ok" /\ status' # "none") =>
           /\ ValidateAsserts(mFileSpec')
           /\ call'.op = "Assign" => mFileSpec' = mFileSpec
      ]_vars

-----------------------------------------------------------------------------
\* Further properties of FileItr

\* C21: the path a FileItr hands to FindFirstFileExA, once, is the pattern
\* without its last character when the pattern ends in '\', and the pattern
\* itself when it does not, the empty pattern included; never more than that
\* one character is removed
C21_TrailingSeparator ==
    (itrLive \/ call.op = "~FileItr") =>
        /\ itr.nFindFirst = 1
        /\ EndsIn(itrPattern, "\\") =>
              itr.lpFileName = SubSeq(itrPattern, 1, Len(itrPattern) - 1)
        /\ ~EndsIn(itrPattern, "\\") => itr.lpFileName = itrPattern
        /\ Len(itrPattern) - Len(itr.lpFileName) <= 1

\* a FileItr was constructed on a pattern that ends in two separators and
\* has searched the path that still ends in one
C21_Witness ==
    /\ call.op = "FileItr"
    /\ itrPattern = <<"d", "\\", "\\">>
    /\ itr.lpFileName = <<"d", "\\">>
    /\ FileItr_Exists(itr)

-----------------------------------------------------------------------------
\* Further properties of DirTree::ForEach

\* the active frames whose FileItr holds an open search handle
openInFrames == { k \in 1..Len(stack) : stack[k].i.handleOpen }

\* the number of folder levels of the tree below the start directory
TreeDepth ==
    LET levels == {0} \cup { Len(n.path) : n \in { m \in tree : m.dir } }
    IN CHOOSE d \in levels : \A e \in levels : e <= d

\* C22: during a ForEach run the search handles open in the OS are exactly
\* those of the FileItr objects of the active frames, one at most for each
\* frame (the FileItr of a frame's first loop has closed its handle when the
\* one of its second loop is opened), the active frames are at most one
\* more than the folder levels of the tree, and no handle is open when the
\* outermost ForEach has returned
C22_HandlesByDepth ==
    /\ handles = Cardinality(openInFrames)
    /\ handles <= Len(stack)
    /\ Len(stack) <= TreeDepth + 1
    /\ \A k \in 1..Len(stack) :
          stack[k].i.handleOpen <=> FileItr_Exists(stack[k].i)
    /\ walkDone => handles = 0

\* three frames hold a handle each, on a tree with more entries than that
C22_Witness ==
    /\ Len(stack) = 3
    /\ handles = 3
    /\ top.pc = "match"
    /\ Cardinality(tree) > 5

\* C23: every ForEach run, in either mode and on every tree, returns: each
\* of its loops comes to the end of its listing and the recursion goes no
\* deeper than the folder levels of the tree
C23_Terminates ==
    /\ (call.op = "ForEach") ~> walkDone
    /\ [](Len(stack) <= TreeDepth + 1)

\* a deep walk over a tree of two folder levels has returned after it had
\* opened a FileItr at the third level
C23_Witness ==
    /\ walkDone
    /\ walkMode = YesSubFolders
    /\ TreeDepth = 2
    /\ \E k \in 1..Len(opened) : opened[k].depth = 3
    /\ visited # <<>>

-----------------------------------------------------------------------------
\* Further properties of FileSpec

\* C24: for every string a FileSpec is made to hold whose volume span is
\* empty or a letter followed by ':', accepted or not, the three parts of
\* the three-way Split put together give the string back, the file part
\* being the stem, the extension separator and the extension in one span: the
\* comparison that ends Validate cannot be the assertion that fails
C24_Reassembly ==
    (status # "none"
       /\ (GetVol(mFileSpec) = <<>> \/ WellFormedVol(GetVol(mFileSpec)))) =>
        /\ Split3(mFileSpec).vol \o Split3(mFileSpec).dir
              \o Split3(mFileSpec).file = GetFullPath(mFileSpec)
        /\ Split3(mFileSpec).vol = GetVol(mFileSpec)
        /\ Split3(mFileSpec).dir = GetDir(mFileSpec)
        /\ Split3(mFileSpec).file = GetFile(mFileSpec)
        /\ GetFile(mFileSpec) =
              GetFileNoExtension(mFileSpec)
                 \o (IF bHaveFileSep(mFileSpec) THEN <<".">> ELSE <<>>)
                 \o GetExtension(mFileSpec)

\* an accepted FileSpec with a volume, a directory, a stem and an extension
C24_Witness ==
    /\ status = "ok"
    /\ GetVol(mFileSpec) = <<"a", ":">>
    /\ GetDir(mFileSpec) # <<>>
    /\ GetFileNoExtension(mFileSpec) # <<>>
    /\ GetExtension(mFileSpec) # <<>>
    /\ call.op = "CtorPath"

\* C27: for every FileSpec that Validate accepts, IsFolder() and IsFile()
\* are not both true; exactly one of them is true when the path is not
\* empty, and none when it is empty
C27_FolderXorFile ==
    status = "ok" =>
        /\ ~(IsFolder(mFileSpec) /\ IsFile(mFileSpec))
        /\ mFileSpec # <<>> => (IsFolder(mFileSpec) \/ IsFile(mFileSpec))
        /\ mFileSpec = <<>> =>
              (~IsFolder(mFileSpec) /\ ~IsFile(mFileSpec))

\* an accepted path in a directory that ends in the extension separator:
\* stem and extension are empty and it is a file, not a folder
C27_Witness ==
    /\ status = "ok"
    /\ GetDir(mFileSpec) # <<>>
    /\ GetFileNoExtension(mFileSpec) = <<>>
    /\ GetExtension(mFileSpec) = <<>>
    /\ IsFile(mFileSpec)
    /\ ~IsFolder(mFileSpec)

-----------------------------------------------------------------------------
\* Properties of File

\* a File object exists: constructed and not yet destroyed
fileLive == call.op \in FileCalls

\* C25: a File object holds one OS handle at most; IsOpen() is true exactly
\* when it holds one; CloseHandle is never called on a handle that is not
\* open, and the handles acquired are those closed and the one held, none
\* when the object is destroyed; a second Close changes nothing; and Create,
\* Open and SetFile leave no handle open that was open before them
C25_HandleLifecycle ==
    /\ [] /\ Cardinality(fileObj.osOpen) <= 1
          /\ ~fileObj.badClose
          /\ fileObj.nAcquired =
                fileObj.nCloseHandle + Cardinality(fileObj.osOpen)
          /\ fileLive =>
                /\ File_IsOpen(fileObj) <=> fileObj.osOpen # {}
                /\ File_IsOpen(fileObj) => fileObj.osOpen = {fileObj.file_}
                /\ ~File_IsOpen(File_Close(fileObj))
                /\ File_Close(File_Close(fileObj)) = File_Close(fileObj)
          /\ call.op = "~File" => fileObj.osOpen = {}
    /\ [][ call'.op \in {"Create", "Open", "SetFile"} =>
              /\ fileObj.osOpen \cap fileObj'.osOpen = {}
              /\ fileObj'.nCloseHandle =
                    fileObj.nCloseHandle + Cardinality(fileObj.osOpen)
         ]_vars

\* a File that was opened three times, each time on a new handle, has been
\* destroyed while it held the third
C25_Witness ==
    /\ call.op = "~File"
    /\ fileObj.nAcquired = 3
    /\ fileObj.nCloseHandle = 3
    /\ fileObj.file_ = 3

\* a ReadEntireFile call has returned
readDone == call.op = "ReadEntireFile"

\* C26: ReadEntireFile returns false and leaves result alone when the file
\* cannot be opened, when its length is more than the largest uint32_t and
\* when resize throws; it returns false with an empty result when Read
\* fails or reads fewer bytes than asked for; when it returns true the size
\* of result is the length GetLength gave; and on every path the one handle
\* Open acquired has been closed, once, when the call returns
C26_ReadEntireFile ==
    readDone =>
        /\ ~rd.opened => (~rd.ret /\ rd.result = rd.before)
        /\ (rd.opened /\ rd.len > UINT32_MAX) =>
              (rd.tooLong /\ ~rd.ret /\ rd.result = rd.before)
        /\ rd.badAlloc => (~rd.ret /\ rd.result = rd.before)
        /\ (rd.readCalled /\ ~rd.readOk) => (~rd.ret /\ rd.result = 0)
        /\ rd.ret => (rd.opened /\ rd.readOk /\ rd.result = rd.len)
        /\ rd.opened <=> rd.f.nAcquired = 1
        /\ rd.f.nCloseHandle = rd.f.nAcquired
        /\ rd.f.osOpen = {}
        /\ ~rd.f.badClose

\* the longest file a uint32_t can count was read into a result that was
\* shorter before
C26_Witness ==
    /\ readDone
    /\ rd.ret
    /\ rd.len = UINT32_MAX
    /\ rd.result = UINT32_MAX
    /\ rd.before = 2
    /\ rd.f.nCloseHandle = 1

\* C30: whenever ReadEntireFile has opened a file (a path with a file name)
\* and calls Read, the assertions of Read hold: the file is open, the buffer
\* is not null and bytes > 0; and for a file of length 0 that is read without
\* failure it returns true with an empty result
C30_ReadPreconditions ==
    (readDone /\ rd.readCalled /\ has_filename(call.args.path)) =>
        /\ rd.readAsserts
        /\ (rd.len = 0 /\ rd.readOk) => (rd.ret /\ rd.result = 0)

-----------------------------------------------------------------------------
\* Cursor states of a FileItr

\* the calls that assert( Exists() )
CursorCalls == {"operator++", "operator*", "GetAttrib"}

\* C28: Exists() is true exactly when the FileItr holds an open search
\* handle; once Exists() is false after construction no call on the FileItr
\* makes it true again; and operator ++, operator * (operator ->) and
\* GetAttrib assert Exists(): called while it is false the assertion fails,
\* and operator * and GetAttrib called while it is true leave the object as
\* it is
C28_CursorStates ==
    /\ [](itrLive => (FileItr_Exists(itr) <=> itr.handleOpen))
    /\ [][ (itrLive /\ ~FileItr_Exists(itr)) => ~FileItr_Exists(itr')
         ]_vars
    /\ [][ (itrLive /\ call'.op \in CursorCalls) =>
              /\ ~FileItr_Exists(itr) => itr'.asserted
              /\ (FileItr_Exists(itr) /\ call'.op # "operator++") =>
                    itr' = itr
         ]_vars

\* operator * was called on a FileItr that operator ++ had exhausted, and
\* its assertion failed
C28_Witness ==
    /\ call.op = "operator*"
    /\ ~FileItr_Exists(itr)
    /\ itr.nFindFirst = 1
    /\ itr.nFindClose = 1
    /\ itr.pos > 0
    /\ itr.asserted

-----------------------------------------------------------------------------
\* Assertions of FileItr under construction and inside ForEach

\* the FileItr objects there are: the one under construction and the loop
\* variables of the frames of a ForEach run
LiveItrs ==
    (IF call.op = "FileItr" THEN {itr} ELSE {})
        \cup { stack[k].i : k \in 1..Len(stack) }

\* C29: in the FileItr a constructor has built, whatever FindFirstFileExA
\* answered, and in the loop variable of every frame of a ForEach run, no
\* assertion has failed, and a FileItr for which Exists() is true holds find
\* data that the last FindFirstFileExA or FindNextFileA call filled; so
\* operator ++, operator *, operator -> and GetAttrib were reached with
\* Exists() true only, also where "." and ".." were stepped over up to the
\* end of the listing
C29_NoAssertFails ==
    \A it \in LiveItrs :
        /\ ~it.asserted
        /\ FileItr_Exists(it) =>
              (/\ ~it.indeterminate
               /\ it.pos \in 1..Len(it.listing)
               /\ it.mpFindData = it.listing[it.pos])

\* a FileItr was built on a listing of "." and ".." alone: both were stepped
\* over, FindNextFileA failed at the end and the handle was closed
C29_Witness ==
    /\ call.op = "FileItr"
    /\ Len(itr.listing) = 2
    /\ itr.pos = 2
    /\ itr.listing[1].cFileName = <<".">>
    /\ itr.listing[2].cFileName = <<".", ".">>
    /\ ~FileItr_Exists(itr)
    /\ itr.nFindClose = 1
    /\ ~itr.asserted

====
